---------------------------- MODULE Spec2Model ----------------------------
(***************************************************************************)
(* Model of homework.py: a poller that fetches homework review statuses,   *)
(* validates the response, translates the first work item to a verdict     *)
(* message, notifies a Telegram chat and de-duplicates error notifications.*)
(*                                                                         *)
(* Message texts are Russian in the source; the module's strings are ASCII *)
(* renderings of them, one distinct string per distinct source literal.    *)
(***************************************************************************)
EXTENDS Integers, Sequences, FiniteSets, TLC

VARIABLES pc, tokens, timestamp, current_error, response, homework, message,
          error, cycle, prev, exit_status

vars == <<pc, tokens, timestamp, current_error, response, homework, message,
          error, cycle, prev, exit_status>>

(***************************************************************************)
(* Bounds of the model.                                                    *)
(***************************************************************************)
\* largest timestamp the clock or the server's current_date takes
MaxDate == 2
\* largest number of elements in a response's homeworks list
MaxLen == 2

(***************************************************************************)
(* Program constants.                                                      *)
(***************************************************************************)
RETRY_PERIOD == 600
HTTP_OK == 200
HTTP_BAD_REQUEST == 400
HTTP_UNAUTHORIZED == 401
\* status codes that are none of the three above
OtherStatusCodes == {404, 500}

ENV_VARS == {"PRACTICUM_TOKEN", "TELEGRAM_TOKEN", "TELEGRAM_CHAT_ID"}

HOMEWORK_VERDICTS ==
    [approved  |-> "Work reviewed: the reviewer liked everything. Hooray!",
     reviewing |-> "Work has been taken for review by the reviewer.",
     rejected  |-> "Work reviewed: the reviewer has comments."]

(***************************************************************************)
(* Python / JSON values.  Every value is a record of one shape so that any *)
(* two of them can be compared.                                            *)
(***************************************************************************)
J(t, s, n) == [type |-> t, s |-> s, n |-> n]
\* a key that the mapping does not have
Absent == J("absent", "", 0)
None == J("NoneType", "", 0)
StrV(s) == J("str", s, 0)
IntV(n) == J("int", "", n)
\* some non-empty list used where a scalar is expected (unhashable)
ListValue == J("list", "", 0)

\* mapping.get(key): None when the key is missing
dict_get(v) == IF v.type = "absent" THEN None ELSE v

\* a work item that is a mapping, and items that are not
DictItem(name, status, other) ==
    [type |-> "dict", homework_name |-> name, status |-> status, other |-> other]
NonDictItem(t) ==
    [type |-> t, homework_name |-> Absent, status |-> Absent, other |-> FALSE]
\* Python's None as the value of the local "homework"
NoneItem == NonDictItem("NoneType")

\* mutant: the test "if homework" is dropped
Truthy_always(item) == TRUE

\* bool(homework): an empty mapping and None are false
Truthy(item) ==
    CASE item.type = "dict" -> \/ item.homework_name.type # "absent"
                               \/ item.status.type # "absent"
                               \/ item.other
      [] item.type = "NoneType" -> FALSE
      [] OTHER -> TRUE

Homeworks(t, items) == [type |-> t, items |-> items]
Response(t, hw, cd) == [type |-> t, homeworks |-> hw, current_date |-> cd]
\* the local "response" before its first assignment
Unbound == Response("unbound", Homeworks("absent", <<>>), Absent)

\* response.get('homeworks') / response.get('current_date')
get_homeworks(r) ==
    IF r.homeworks.type = "absent" THEN Homeworks("NoneType", <<>>) ELSE r.homeworks
get_current_date(r) == dict_get(r.current_date)

(***************************************************************************)
(* Exceptions and str(error).                                              *)
(***************************************************************************)
Exc(t, m) == [type |-> t, msg |-> m]
NoExc == Exc("none", "")

\* str() of a KeyError is the repr of its argument; other exceptions give
\* the message itself (APIAnswerException, imported at line 11, is taken
\* to be a plain subclass of Exception)
str_error(e) == IF e.type = "KeyError" THEN "'" \o e.msg \o "'" ELSE e.msg

MSG_FROM_DATE == "Invalid from_date format."
MSG_TOKEN == "Invalid or incorrect PRACTICUM_TOKEN."
MSG_ENDPOINT(code) ==
    "Program failure: endpoint ENDPOINT is unavailable. API response code: "
        \o ToString(code) \o "."
\* the interpreter's text for reading an unassigned local; its wording
\* depends on the Python version, it is one fixed text within a run
MSG_UNBOUND == "local variable 'response' referenced before assignment"
MSG_JSON == "Expecting value: line 1 column 1 (char 0)"
MSG_NOT_DICT == "A dict is expected in the API response."
MSG_NO_HOMEWORKS == "The API response has no key \"homeworks\"."
MSG_NOT_LIST == "The API response is expected to hold a list under the key \"homeworks\"."
MSG_NO_DATE == "The API response has no key \"current_date\"."
MSG_NO_NAME == "The key \"homework_name\" is missing."
MSG_BAD_STATUS == "The API returns an undocumented homework status or a homework without status."
MSG_NO_GET == "object has no attribute 'get'"
MSG_UNHASHABLE == "unhashable type: 'list'"

Log(level, text) == [level |-> level, text |-> text]

(***************************************************************************)
(* send_message(bot, message).  "ok" is whether bot.send_message completes *)
(* without raising.  The function has no return statement.                 *)
(***************************************************************************)
\* mutant: the transport's exception is not caught
send_message_propagates(text, ok) ==
    [raised |-> IF ok THEN NoExc ELSE Exc("TelegramError", "Failure while sending the message."),
     ret |-> "None",
     text |-> text,
     delivered |-> ok,
     logs |-> IF ok THEN <<Log("DEBUG", "Message sent successfully.")>> ELSE <<>>]

send_message(text, ok) ==
    [raised |-> NoExc,
     ret |-> "None",
     text |-> text,
     delivered |-> ok,
     logs |-> IF ok THEN <<Log("DEBUG", "Message sent successfully.")>>
                    ELSE <<Log("ERROR", "Failure while sending the message.")>>]

(***************************************************************************)
(* get_api_answer(timestamp).  "net" is what requests.get does: it raises  *)
(* a RequestException, or gives an HTTP response with a status code and a  *)
(* body that response.json() decodes or rejects.                           *)
(***************************************************************************)
NotJson == Response("notjson", Homeworks("absent", <<>>), Absent)
TransportFailure == [kind |-> "RequestException", status_code |-> 0, json |-> NotJson]
\* requests.get raises an exception that is not a RequestException and has
\* no message, such as MemoryError()
OtherFailure == [kind |-> "MemoryError", status_code |-> 0, json |-> NotJson]
Http(code, body) == [kind |-> "http", status_code |-> code, json |-> body]

Raise(e, logs) == [raised |-> e, value |-> Unbound, logs |-> logs]
Return(v, logs) == [raised |-> NoExc, value |-> v, logs |-> logs]

get_api_answer(ts, net) ==
    IF net.kind = "RequestException"
    THEN \* the handler only logs; line 69 then reads the unassigned local
         Raise(Exc("UnboundLocalError", MSG_UNBOUND),
               <<Log("ERROR", "Endpoint ENDPOINT is unavailable.")>>)
    ELSE IF net.kind # "http"
    THEN \* not caught at line 67: it leaves get_api_answer as it is
         Raise(Exc(net.kind, ""), <<>>)
    ELSE IF net.status_code = HTTP_BAD_REQUEST
    THEN Raise(Exc("APIAnswerException", MSG_FROM_DATE),
               <<Log("ERROR", MSG_FROM_DATE)>>)
    ELSE IF net.status_code = HTTP_UNAUTHORIZED
    THEN Raise(Exc("APIAnswerException", MSG_TOKEN), <<Log("ERROR", MSG_TOKEN)>>)
    ELSE IF net.status_code # HTTP_OK
    THEN Raise(Exc("APIAnswerException", MSG_ENDPOINT(net.status_code)),
               <<Log("ERROR", MSG_ENDPOINT(net.status_code))>>)
    ELSE IF net.json.type = "notjson"
    THEN Raise(Exc("JSONDecodeError", MSG_JSON), <<>>)
    ELSE Return(net.json, <<>>)

(***************************************************************************)
(* check_response(response): the value returned (None for an empty list),  *)
(* or the exception raised, and the response as the call leaves it.        *)
(***************************************************************************)
CheckRaise(e, r) ==
    [raised |-> e, value |-> NoneItem, response |-> r,
     logs |-> <<Log("ERROR", e.msg)>>]

\* mutant: the current_date check is dropped
check_response_nodate(r) ==
    IF r.type # "dict"
    THEN CheckRaise(Exc("TypeError", MSG_NOT_DICT), r)
    ELSE IF get_homeworks(r).type = "NoneType"
    THEN CheckRaise(Exc("KeyError", MSG_NO_HOMEWORKS), r)
    ELSE IF get_homeworks(r).type # "list"
    THEN CheckRaise(Exc("TypeError", MSG_NOT_LIST), r)
    ELSE IF Len(get_homeworks(r).items) = 0
    THEN [raised |-> NoExc, value |-> NoneItem, response |-> r,
          logs |-> <<Log("DEBUG", "The response has no new statuses.")>>]
    ELSE [raised |-> NoExc, value |-> get_homeworks(r).items[1], response |-> r,
          logs |-> <<>>]

\* mutant: an empty list is indexed like any other
check_response_noempty(r) ==
    IF r.type # "dict"
    THEN CheckRaise(Exc("TypeError", MSG_NOT_DICT), r)
    ELSE IF get_homeworks(r).type = "NoneType"
    THEN CheckRaise(Exc("KeyError", MSG_NO_HOMEWORKS), r)
    ELSE IF get_homeworks(r).type # "list"
    THEN CheckRaise(Exc("TypeError", MSG_NOT_LIST), r)
    ELSE IF get_current_date(r).type = "NoneType"
    THEN CheckRaise(Exc("KeyError", MSG_NO_DATE), r)
    ELSE IF Len(get_homeworks(r).items) = 0
    THEN CheckRaise(Exc("IndexError", "list index out of range"), r)
    ELSE [raised |-> NoExc, value |-> get_homeworks(r).items[1], response |-> r,
          logs |-> <<>>]

\* mutant: the last element is taken (and popped) instead of the first
check_response_last(r) ==
    IF r.type # "dict"
    THEN CheckRaise(Exc("TypeError", MSG_NOT_DICT), r)
    ELSE IF get_homeworks(r).type = "NoneType"
    THEN CheckRaise(Exc("KeyError", MSG_NO_HOMEWORKS), r)
    ELSE IF get_homeworks(r).type # "list"
    THEN CheckRaise(Exc("TypeError", MSG_NOT_LIST), r)
    ELSE IF get_current_date(r).type = "NoneType"
    THEN CheckRaise(Exc("KeyError", MSG_NO_DATE), r)
    ELSE IF Len(get_homeworks(r).items) = 0
    THEN [raised |-> NoExc, value |-> NoneItem, response |-> r,
          logs |-> <<Log("DEBUG", "The response has no new statuses.")>>]
    ELSE [raised |-> NoExc,
          value |-> get_homeworks(r).items[Len(get_homeworks(r).items)],
          response |-> [r EXCEPT !.homeworks.items = SubSeq(@, 1, Len(@) - 1)],
          logs |-> <<>>]

check_response(r) ==
    IF r.type # "dict"
    THEN CheckRaise(Exc("TypeError", MSG_NOT_DICT), r)
    ELSE IF get_homeworks(r).type = "NoneType"
    THEN CheckRaise(Exc("KeyError", MSG_NO_HOMEWORKS), r)
    ELSE IF get_homeworks(r).type # "list"
    THEN CheckRaise(Exc("TypeError", MSG_NOT_LIST), r)
    ELSE IF get_current_date(r).type = "NoneType"
    THEN CheckRaise(Exc("KeyError", MSG_NO_DATE), r)
    ELSE IF Len(get_homeworks(r).items) = 0
    THEN [raised |-> NoExc, value |-> NoneItem, response |-> r,
          logs |-> <<Log("DEBUG", "The response has no new statuses.")>>]
    ELSE [raised |-> NoExc, value |-> get_homeworks(r).items[1], response |-> r,
          logs |-> <<>>]

(***************************************************************************)
(* parse_status(homework): the message, or the exception raised.           *)
(***************************************************************************)
\* HOMEWORK_VERDICTS.get(key), for a hashable key
verdict_get(key) ==
    IF key.type = "str" /\ key.s \in DOMAIN HOMEWORK_VERDICTS
    THEN StrV(HOMEWORK_VERDICTS[key.s]) ELSE None

ParseRaise(e, logs) == [raised |-> e, value |-> "", logs |-> logs]

\* mutant: the name is left out of the message
StatusMessage_noname(homework_name, verdict) ==
    "Homework review status changed. " \o verdict

\* the f-string of line 133
StatusMessage(homework_name, verdict) ==
    "Homework review status changed: \"" \o homework_name \o "\". " \o verdict

\* mutant: the status is looked up before the name is checked
parse_status_statusfirst(hw) ==
    IF hw.type # "dict"
    THEN ParseRaise(Exc("AttributeError", MSG_NO_GET), <<>>)
    ELSE IF dict_get(hw.status).type = "list"
    THEN ParseRaise(Exc("TypeError", MSG_UNHASHABLE), <<>>)
    ELSE IF verdict_get(dict_get(hw.status)).type = "NoneType"
    THEN ParseRaise(Exc("Exception", MSG_BAD_STATUS), <<Log("ERROR", MSG_BAD_STATUS)>>)
    ELSE IF dict_get(hw.homework_name).type = "NoneType"
    THEN ParseRaise(Exc("KeyError", MSG_NO_NAME), <<Log("ERROR", MSG_NO_NAME)>>)
    ELSE [raised |-> NoExc,
          value |-> StatusMessage(hw.homework_name.s,
                                  verdict_get(dict_get(hw.status)).s),
          logs |-> <<>>]

parse_status(hw) ==
    IF hw.type # "dict"
    THEN ParseRaise(Exc("AttributeError", MSG_NO_GET), <<>>)
    ELSE IF dict_get(hw.homework_name).type = "NoneType"
    THEN ParseRaise(Exc("KeyError", MSG_NO_NAME), <<Log("ERROR", MSG_NO_NAME)>>)
    ELSE IF dict_get(hw.status).type = "list"
    THEN ParseRaise(Exc("TypeError", MSG_UNHASHABLE), <<>>)
    ELSE IF verdict_get(dict_get(hw.status)).type = "NoneType"
    THEN ParseRaise(Exc("Exception", MSG_BAD_STATUS), <<Log("ERROR", MSG_BAD_STATUS)>>)
    ELSE [raised |-> NoExc,
          value |-> StatusMessage(hw.homework_name.s,
                                  verdict_get(dict_get(hw.status)).s),
          logs |-> <<>>]

(***************************************************************************)
(* check_tokens(): TRUE when sys.exit() is called.                         *)
(***************************************************************************)
check_tokens(env) == \E key \in ENV_VARS : ~env[key]

(***************************************************************************)
(* Inputs: what the server can answer and what the network can do.         *)
(***************************************************************************)
Names == {"hw1", "hw2"}
Statuses == {"approved", "reviewing", "rejected", "weird"}
NameValues == {Absent, None} \cup {StrV(n) : n \in Names}
StatusValues == {Absent, None, ListValue} \cup {StrV(st) : st \in Statuses}
\* a key other than the two is told apart only in a mapping that has
\* neither of them (it makes the mapping true)
Items ==
    {DictItem(n, st, FALSE) : n \in NameValues, st \in StatusValues}
        \cup {DictItem(Absent, Absent, TRUE)}
        \cup {NonDictItem("NoneType"), NonDictItem("str")}
\* the elements that follow the first one
TailItems == {DictItem(StrV("hw2"), StrV("rejected"), FALSE), NonDictItem("str")}
Tails == UNION {[1..k -> TailItems] : k \in 0..(MaxLen - 1)}
ItemLists == {<<>>} \cup {<<h>> \o t : h \in Items, t \in Tails}
HomeworksValues ==
    {Homeworks(t, <<>>) : t \in {"absent", "NoneType", "str", "dict"}}
        \cup {Homeworks("list", l) : l \in ItemLists}
DateValues == {Absent, None, StrV("tomorrow")} \cup {IntV(d) : d \in 1..MaxDate}
Responses ==
    {Response(t, Homeworks("absent", <<>>), Absent) : t \in {"list", "NoneType"}}
        \cup {Response("dict", h, d) : h \in HomeworksValues, d \in DateValues}
NetOutcomes ==
    {TransportFailure, OtherFailure}
        \cup {Http(c, NotJson) : c \in {HTTP_BAD_REQUEST, HTTP_UNAUTHORIZED}
                                            \cup OtherStatusCodes}
        \cup {Http(HTTP_OK, b) : b \in Responses \cup {NotJson}}

(***************************************************************************)
(* History of the running cycle and a summary of the one before it.        *)
(***************************************************************************)
NewCycle(ts, err) ==
    [t0 |-> ts, e0 |-> err, failedAt |-> "none", text |-> "", fetched |-> Unbound,
     translated |-> FALSE, sends |-> <<>>, steps |-> <<>>, logs |-> <<>>,
     slept |-> 0, net |-> "none"]
NoCycle ==
    [ran |-> FALSE, failed |-> FALSE, text |-> "", fresh |-> FALSE,
     errorSends |-> 0, undelivered |-> FALSE, slept |-> 0, anyFailed |-> FALSE]

Sent(c, path) == SelectSeq(c.sends, LAMBDA m : m.path = path)
Summary(c) ==
    [ran |-> TRUE, failed |-> c.failedAt # "none", text |-> c.text,
     fresh |-> c.failedAt # "none" /\ c.text # c.e0,
     errorSends |-> Len(Sent(c, "error")),
     undelivered |-> \E i \in 1..Len(c.sends) : ~c.sends[i].delivered,
     slept |-> c.slept, anyFailed |-> FALSE]

Levels(logs) == [i \in 1..Len(logs) |-> logs[i].level]
\* what sys.exit() at line 50, called without an argument, exits with
sys_exit == IntV(0)

Step(c, name, logs) ==
    [c EXCEPT !.steps = Append(@, name), !.logs = @ \o Levels(logs)]
Fail(c, name, logs, e) ==
    [Step(c, name, logs) EXCEPT !.failedAt = name, !.text = str_error(e)]
Notify(c, path, r) ==
    [c EXCEPT !.sends = Append(@, [path |-> path, text |-> r.text,
                                   delivered |-> r.delivered, ret |-> r.ret,
                                   log |-> Levels(r.logs)]),
              !.logs = @ \o Levels(r.logs)]

(***************************************************************************)
(* main()                                                                  *)
(***************************************************************************)
Init ==
    /\ pc = "check_tokens"
    /\ tokens \in [ENV_VARS -> BOOLEAN]
    /\ timestamp = None
    /\ current_error = ""
    /\ response = Unbound
    /\ homework = NoneItem
    /\ message = ""
    /\ error = NoExc
    /\ cycle = NewCycle(None, "")
    /\ prev = NoCycle
    /\ exit_status = None

\* lines 138-141: check_tokens(), the bot, the first cursor, the empty
\* last error
MainStart ==
    /\ pc = "check_tokens"
    /\ IF check_tokens(tokens)
       THEN /\ pc' = "exited"
            /\ exit_status' = sys_exit
            /\ UNCHANGED <<timestamp, cycle>>
       ELSE \E now \in 1..MaxDate :
                /\ pc' = "fetch"
                /\ timestamp' = IntV(now)
                /\ cycle' = NewCycle(IntV(now), "")
                /\ UNCHANGED exit_status
    /\ current_error' = ""
    /\ UNCHANGED <<tokens, response, homework, message, error, prev>>

\* line 144
MainFetch ==
    /\ pc = "fetch"
    /\ \E net \in NetOutcomes :
         LET r == get_api_answer(timestamp, net) IN
         IF r.raised # NoExc
         THEN /\ pc' = "except"
              /\ error' = r.raised
              /\ cycle' = [Fail(cycle, "fetch", r.logs, r.raised) EXCEPT !.net = net.kind]
              /\ UNCHANGED response
         ELSE /\ pc' = "validate"
              /\ response' = r.value
              /\ cycle' = [Step(cycle, "fetch", r.logs) EXCEPT !.fetched = r.value,
                                                               !.net = net.kind]
              /\ UNCHANGED error
    /\ UNCHANGED <<tokens, timestamp, current_error, homework, message, prev, exit_status>>

\* lines 145-146
MainValidate ==
    /\ pc = "validate"
    /\ LET r == check_response(response) IN
         /\ response' = r.response
         /\ IF r.raised # NoExc
            THEN /\ pc' = "except"
                 /\ error' = r.raised
                 /\ cycle' = Fail(cycle, "validate", r.logs, r.raised)
                 /\ UNCHANGED homework
            ELSE /\ pc' = IF Truthy(r.value) THEN "translate" ELSE "advance"
                 /\ homework' = r.value
                 /\ cycle' = Step(cycle, "validate", r.logs)
                 /\ UNCHANGED error
    /\ UNCHANGED <<tokens, timestamp, current_error, message, prev, exit_status>>

\* mutant: the cursor is advanced whether or not the translation failed
MainTranslate_advances ==
    /\ pc = "translate"
    /\ timestamp' = get_current_date(response)
    /\ LET r == parse_status(homework) IN
         IF r.raised # NoExc
         THEN /\ pc' = "except"
              /\ error' = r.raised
              /\ cycle' = Fail(cycle, "translate", r.logs, r.raised)
              /\ UNCHANGED message
         ELSE /\ pc' = "notify"
              /\ message' = r.value
              /\ cycle' = [Step(cycle, "translate", r.logs) EXCEPT !.translated = TRUE]
              /\ UNCHANGED error
    /\ UNCHANGED <<tokens, current_error, response, homework, prev, exit_status>>

\* line 147
MainTranslate ==
    /\ pc = "translate"
    /\ LET r == parse_status(homework) IN
         IF r.raised # NoExc
         THEN /\ pc' = "except"
              /\ error' = r.raised
              /\ cycle' = Fail(cycle, "translate", r.logs, r.raised)
              /\ UNCHANGED message
         ELSE /\ pc' = "notify"
              /\ message' = r.value
              /\ cycle' = [Step(cycle, "translate", r.logs) EXCEPT !.translated = TRUE]
              /\ UNCHANGED error
    /\ UNCHANGED <<tokens, timestamp, current_error, response, homework, prev, exit_status>>

\* line 148; an exception out of send_message would be caught at line 150
MainNotify ==
    /\ pc = "notify"
    /\ \E ok \in BOOLEAN :
         LET r == send_message(message, ok) IN
         IF r.raised # NoExc
         THEN /\ pc' = "except"
              /\ error' = r.raised
              /\ cycle' = Fail(Notify(cycle, "verdict", r), "notify", <<>>, r.raised)
         ELSE /\ pc' = "advance"
              /\ cycle' = Step(Notify(cycle, "verdict", r), "notify", <<>>)
              /\ UNCHANGED error
    /\ UNCHANGED <<tokens, timestamp, current_error, response, homework, message, prev, exit_status>>

\* mutant: a successful cycle clears the last error
MainAdvance_clears ==
    /\ pc = "advance"
    /\ timestamp' = get_current_date(response)
    /\ current_error' = ""
    /\ pc' = "sleep"
    /\ cycle' = Step(cycle, "advance", <<>>)
    /\ UNCHANGED <<tokens, response, homework, message, error, prev, exit_status>>

\* line 149
MainAdvance ==
    /\ pc = "advance"
    /\ timestamp' = get_current_date(response)
    /\ pc' = "sleep"
    /\ cycle' = Step(cycle, "advance", <<>>)
    /\ UNCHANGED <<tokens, current_error, response, homework, message, error, prev, exit_status>>

\* line 151
ErrorMessage(e) == "Program failure: " \o str_error(e)
\* mutant: every error is notified
IsNewError_always(cur, e) == TRUE

\* line 152
IsNewError(cur, e) == cur # str_error(e)

\* mutant: a repeated error goes straight to the next iteration, without
\* the sleep
MainExcept_continue ==
    /\ pc = "except"
    /\ message' = ErrorMessage(error)
    /\ IF IsNewError(current_error, error)
       THEN /\ current_error' = str_error(error)
            /\ \E ok \in BOOLEAN :
                 LET r == send_message(ErrorMessage(error), ok) IN
                 /\ pc' = IF r.raised # NoExc THEN "crashed" ELSE "sleep"
                 /\ cycle' = Step(Notify(cycle, "error", r), "except", <<>>)
       ELSE /\ pc' = "fetch"
            /\ cycle' = NewCycle(timestamp, current_error)
            /\ UNCHANGED current_error
    /\ UNCHANGED <<tokens, timestamp, response, homework, error, prev, exit_status>>

\* mutant: the last error is remembered only when its notification was
\* delivered
MainExcept_remembersDelivered ==
    /\ pc = "except"
    /\ message' = ErrorMessage(error)
    /\ IF IsNewError(current_error, error)
       THEN \E ok \in BOOLEAN :
                 LET r == send_message(ErrorMessage(error), ok) IN
                 /\ current_error' = IF ok THEN str_error(error) ELSE current_error
                 /\ pc' = IF r.raised # NoExc THEN "crashed" ELSE "sleep"
                 /\ cycle' = Step(Notify(cycle, "error", r), "except", <<>>)
       ELSE /\ pc' = "sleep"
            /\ cycle' = Step(cycle, "except", <<>>)
            /\ UNCHANGED current_error
    /\ UNCHANGED <<tokens, timestamp, response, homework, error, prev, exit_status>>

\* lines 150-154; an exception out of send_message here leaves main()
MainExcept ==
    /\ pc = "except"
    /\ message' = ErrorMessage(error)
    /\ IF IsNewError(current_error, error)
       THEN /\ current_error' = str_error(error)
            /\ \E ok \in BOOLEAN :
                 LET r == send_message(ErrorMessage(error), ok) IN
                 /\ pc' = IF r.raised # NoExc THEN "crashed" ELSE "sleep"
                 /\ cycle' = Step(Notify(cycle, "error", r), "except", <<>>)
       ELSE /\ pc' = "sleep"
            /\ cycle' = Step(cycle, "except", <<>>)
            /\ UNCHANGED current_error
    /\ UNCHANGED <<tokens, timestamp, response, homework, error, prev, exit_status>>

\* line 155, and the start of the next iteration.  The locals are dead
\* here (each is assigned before its next use), so they are cleared.
MainSleep ==
    /\ pc = "sleep"
    /\ pc' = "fetch"
    /\ prev' = [Summary([cycle EXCEPT !.slept = @ + RETRY_PERIOD])
                    EXCEPT !.anyFailed = cycle.failedAt # "none" \/ prev.anyFailed]
    /\ cycle' = NewCycle(timestamp, current_error)
    /\ response' = Unbound
    /\ homework' = NoneItem
    /\ message' = ""
    /\ error' = NoExc
    /\ UNCHANGED <<tokens, timestamp, current_error, exit_status>>

Next ==
    \/ MainStart
    \/ MainFetch
    \/ MainValidate
    \/ MainTranslate
    \/ MainNotify
    \/ MainAdvance
    \/ MainExcept
    \/ MainSleep

Spec == Init /\ [][Next]_vars

(***************************************************************************)
(* Vocabulary of the properties.                                           *)
(***************************************************************************)
\* the step has been taken (completed or failed) in the running cycle
Ran(name) == \E i \in 1..Len(cycle.steps) : cycle.steps[i] = name
Failed == cycle.failedAt # "none"
\* the cycle has run up to its sleep
CycleDone == pc = "sleep"
ErrorSends == Len(Sent(cycle, "error"))
VerdictSends == Len(Sent(cycle, "verdict"))
Contains(str, sub) ==
    \E i \in 1..(Len(str) - Len(sub) + 1) : SubSeq(str, i, i + Len(sub) - 1) = sub

\* a mapping with a homeworks list and a current_date value
WellFormed(r) ==
    /\ r.type = "dict"
    /\ r.homeworks.type = "list"
    /\ r.current_date.type \notin {"absent", "NoneType"}
\* the four defects of section 4.1
Defective(r) ==
    \/ r.type # "dict"
    \/ r.homeworks.type = "absent"
    \/ r.homeworks.type # "list"
    \/ r.current_date.type = "absent"

C2_Original ==
    (CycleDone /\ Failed /\ prev.failed) =>
        prev.errorSends + ErrorSends = IF cycle.text = prev.text THEN 1 ELSE 2

(***************************************************************************)
(* C2 amended: of two consecutive failed cycles, the second notifies on    *)
(* the error path exactly once when its text differs from the first's and  *)
(* not at all when it is identical; the first notifies exactly once when   *)
(* its text differs from the last error at its start and not at all        *)
(* otherwise.  So the counts are one and two when the first failure's text *)
(* is new.                                                                 *)
(***************************************************************************)
C2_Dedup ==
    (CycleDone /\ Failed /\ prev.failed) =>
        /\ ErrorSends = IF cycle.text = prev.text THEN 0 ELSE 1
        /\ prev.errorSends = IF prev.fresh THEN 1 ELSE 0
        /\ prev.fresh =>
              prev.errorSends + ErrorSends = IF cycle.text = prev.text THEN 1 ELSE 2

\* the same failure twice in a row, the first of them new
C2_Witness ==
    /\ CycleDone /\ Failed /\ prev.failed /\ prev.fresh
    /\ cycle.text = prev.text
    /\ prev.errorSends = 1 /\ ErrorSends = 0

(***************************************************************************)
(* C3: once the loop has started it never stops: every state of the loop   *)
(* has a successor, the error handler always goes on to the sleep, also    *)
(* when the delivery of its notification fails, and the sleep always goes  *)
(* on to the next fetch.                                                   *)
(***************************************************************************)
C3_LoopNeverStops ==
    /\ [](pc \notin {"check_tokens", "exited"} => pc # "crashed" /\ ENABLED Next)
    /\ [][pc = "except" => pc' = "sleep"]_vars
    /\ [][pc = "sleep" => pc' = "fetch"]_vars

\* the next fetch after a failed cycle whose error notification was not
\* delivered
C3_Witness ==
    /\ pc = "fetch"
    /\ prev.failed /\ prev.errorSends = 1 /\ prev.undelivered

(***************************************************************************)
(* C4 as stated: send_message returns normally and its result is the       *)
(* boolean "delivered".                                                    *)
(***************************************************************************)
C4_Original ==
    /\ pc # "crashed" /\ cycle.failedAt # "notify"
    /\ \A i \in 1..Len(cycle.sends) :
          cycle.sends[i].ret = IF cycle.sends[i].delivered THEN "True" ELSE "False"

(***************************************************************************)
(* C4 amended: send_message never propagates a failure to its caller; it   *)
(* returns None whether or not the message was delivered, and the outcome  *)
(* shows only in the log: a debug entry on delivery, an error entry on a   *)
(* transport failure.                                                      *)
(***************************************************************************)
C4_NeverPropagates ==
    /\ pc # "crashed" /\ cycle.failedAt # "notify"
    /\ \A i \in 1..Len(cycle.sends) :
          /\ cycle.sends[i].ret = "None"
          /\ cycle.sends[i].log =
                IF cycle.sends[i].delivered THEN <<"DEBUG">> ELSE <<"ERROR">>

\* a verdict whose delivery failed, and the cycle went on to its sleep
C4_Witness ==
    /\ CycleDone
    /\ VerdictSends = 1
    /\ ~cycle.sends[1].delivered

(***************************************************************************)
(* C5: a cycle that fetched a well-formed response with an empty homeworks *)
(* list sends nothing, leaves current_error alone and moves the cursor to  *)
(* the response's current_date.                                            *)
(***************************************************************************)
C5_EmptyCycle ==
    (CycleDone /\ WellFormed(cycle.fetched) /\ cycle.fetched.homeworks.items = <<>>) =>
        /\ cycle.sends = <<>>
        /\ current_error = cycle.e0
        /\ ~Failed
        /\ timestamp = cycle.fetched.current_date

\* an empty answer that moved the cursor while an earlier error is remembered
C5_Witness ==
    /\ CycleDone /\ WellFormed(cycle.fetched) /\ cycle.fetched.homeworks.items = <<>>
    /\ timestamp # cycle.t0
    /\ current_error # ""

(***************************************************************************)
(* C6: a cycle that fetched a well-formed response whose first element has *)
(* a homework_name and a status of HOMEWORK_VERDICTS notifies exactly      *)
(* once, with a text that contains the name and the verdict text of that   *)
(* status, and moves the cursor to the response's current_date.            *)
(***************************************************************************)
HasVerdict(item) ==
    /\ item.type = "dict"
    /\ item.homework_name.type = "str"
    /\ item.status.type = "str"
    /\ item.status.s \in DOMAIN HOMEWORK_VERDICTS
NonEmpty(r) == WellFormed(r) /\ Len(r.homeworks.items) > 0

C6_VerdictCycle ==
    (CycleDone /\ NonEmpty(cycle.fetched) /\ HasVerdict(cycle.fetched.homeworks.items[1])) =>
        LET item == cycle.fetched.homeworks.items[1] IN
        /\ Len(cycle.sends) = 1
        /\ cycle.sends[1].path = "verdict"
        /\ Contains(cycle.sends[1].text, item.homework_name.s)
        /\ Contains(cycle.sends[1].text, HOMEWORK_VERDICTS[item.status.s])
        /\ \A st \in DOMAIN HOMEWORK_VERDICTS :
              st # item.status.s => ~Contains(cycle.sends[1].text, HOMEWORK_VERDICTS[st])
        /\ timestamp = cycle.fetched.current_date

\* a rejected "hw2" at the head of a longer list, notified, cursor moved
C6_Witness ==
    /\ CycleDone /\ NonEmpty(cycle.fetched)
    /\ cycle.fetched.homeworks.items[1].homework_name = StrV("hw2")
    /\ cycle.fetched.homeworks.items[1].status = StrV("rejected")
    /\ Len(cycle.fetched.homeworks.items) > 1
    /\ VerdictSends = 1
    /\ timestamp # cycle.t0

(***************************************************************************)
(* C7: check_response fails, and gives main no work item, for every        *)
(* response that is not a mapping, has no homeworks key, has a homeworks   *)
(* value that is not a list, or has no current_date key; when it returns,  *)
(* the response has none of these four defects.                            *)
(***************************************************************************)
C7_DefectsRejected ==
    Ran("validate") =>
        /\ Defective(cycle.fetched) =>
              /\ cycle.failedAt = "validate"
              /\ error.type \in {"TypeError", "KeyError"}
              /\ homework = NoneItem
              /\ ~Ran("translate") /\ ~Ran("advance")
        /\ cycle.failedAt # "validate" => ~Defective(cycle.fetched)

\* a response with work items but without current_date was rejected
C7_Witness ==
    /\ pc = "except" /\ cycle.failedAt = "validate"
    /\ cycle.fetched.type = "dict"
    /\ cycle.fetched.homeworks.type = "list"
    /\ Len(cycle.fetched.homeworks.items) > 0
    /\ cycle.fetched.current_date.type = "absent"

(***************************************************************************)
(* C8 as stated: for every response whose homeworks is an empty list       *)
(* check_response returns "no item" and does not fail.                     *)
(***************************************************************************)
EmptyHomeworks(r) ==
    r.type = "dict" /\ r.homeworks.type = "list" /\ r.homeworks.items = <<>>

C8_Original ==
    (Ran("validate") /\ EmptyHomeworks(cycle.fetched)) =>
        /\ cycle.failedAt # "validate"
        /\ homework = NoneItem

(***************************************************************************)
(* C8 amended: for every response that has a current_date value and whose  *)
(* homeworks is an empty list check_response returns "no item" (None) and  *)
(* does not fail; without a current_date value it fails with a KeyError.   *)
(***************************************************************************)
C8_EmptyIsNoItem ==
    (Ran("validate") /\ EmptyHomeworks(cycle.fetched)) =>
        IF cycle.fetched.current_date.type \in {"absent", "NoneType"}
        THEN cycle.failedAt = "validate" /\ error = Exc("KeyError", MSG_NO_DATE)
        ELSE /\ ~Failed
             /\ homework = NoneItem
             /\ ~Ran("translate")
             /\ pc \in {"advance", "sleep"}

\* validation has just returned "no item" for an empty list
C8_Witness ==
    /\ pc = "advance"
    /\ EmptyHomeworks(cycle.fetched)
    /\ homework = NoneItem

(***************************************************************************)
(* C9: for every well-formed response with a non-empty homeworks list      *)
(* check_response returns exactly the first element, whatever follows it,  *)
(* and leaves the response as it was fetched.                              *)
(***************************************************************************)
C9_FirstElement ==
    (Ran("validate") /\ NonEmpty(cycle.fetched)) =>
        /\ cycle.failedAt # "validate"
        /\ homework = cycle.fetched.homeworks.items[1]
        /\ response = cycle.fetched

\* the first of several different elements was returned
C9_Witness ==
    /\ Ran("validate") /\ NonEmpty(cycle.fetched)
    /\ Len(cycle.fetched.homeworks.items) = MaxLen
    /\ cycle.fetched.homeworks.items[1] # cycle.fetched.homeworks.items[MaxLen]
    /\ homework = cycle.fetched.homeworks.items[1]

(***************************************************************************)
(* C10 as stated: parse_status fails with a ShapeError for every work item *)
(* without homework_name or without status, and with an UnknownStatusError *)
(* for every work item whose status is present but not a key of            *)
(* HOMEWORK_VERDICTS.  The shape errors of the program are its KeyError    *)
(* and TypeError; its unknown-status error is the plain Exception of lines *)
(* 129-132.                                                                *)
(***************************************************************************)
ErrorKind(e) ==
    IF e.type \in {"KeyError", "TypeError"} THEN "ShapeError"
    ELSE IF e = Exc("Exception", MSG_BAD_STATUS) THEN "UnknownStatusError"
    ELSE "other"
Known(v) == v.type = "str" /\ v.s \in DOMAIN HOMEWORK_VERDICTS

C10_Original ==
    (Ran("translate") /\ homework.type = "dict") =>
        /\ (homework.homework_name.type = "absent" \/ homework.status.type = "absent") =>
              cycle.failedAt = "translate" /\ ErrorKind(error) = "ShapeError"
        /\ (homework.status.type # "absent" /\ ~Known(homework.status)) =>
              cycle.failedAt = "translate" /\ ErrorKind(error) = "UnknownStatusError"

(***************************************************************************)
(* C10 amended: parse_status fails with a KeyError (a shape error) for     *)
(* every work item whose homework_name is absent or null, whatever its     *)
(* status; for every work item with a homework_name whose status is        *)
(* absent, null or a string that is not a key of HOMEWORK_VERDICTS it      *)
(* fails with one and the same plain Exception, the unknown-status error,  *)
(* distinguishable from the KeyError by type and by message: a missing     *)
(* status is not a shape error.  In neither case does it return a string.  *)
(***************************************************************************)
C10_Classified ==
    (Ran("translate") /\ homework.type = "dict") =>
        /\ dict_get(homework.homework_name).type = "NoneType" =>
              /\ cycle.failedAt = "translate"
              /\ error = Exc("KeyError", MSG_NO_NAME)
              /\ ErrorKind(error) = "ShapeError"
        /\ (/\ dict_get(homework.homework_name).type # "NoneType"
            /\ dict_get(homework.status).type \in {"NoneType", "str"}
            /\ ~Known(homework.status)) =>
              /\ cycle.failedAt = "translate"
              /\ error = Exc("Exception", MSG_BAD_STATUS)
              /\ ErrorKind(error) = "UnknownStatusError"
              /\ str_error(error) # str_error(Exc("KeyError", MSG_NO_NAME))
        /\ cycle.failedAt = "translate" => ~cycle.translated /\ VerdictSends = 0

\* a named work item without status failed with the unknown-status error
C10_Witness ==
    /\ pc = "except" /\ cycle.failedAt = "translate"
    /\ homework.type = "dict"
    /\ homework.homework_name.type = "str"
    /\ homework.status.type = "absent"
    /\ error = Exc("Exception", MSG_BAD_STATUS)

(***************************************************************************)
(* C11: in every cycle that fetched a well-formed response with a          *)
(* non-empty homeworks list the first element, a mapping with or without   *)
(* keys, is passed to parse_status,                                        *)
(* and when parse_status fails on it the cycle fails: no verdict is sent,  *)
(* the cursor keeps its value and the error is notified unless it repeats  *)
(* the last one.  Only an empty list skips the translation.                *)
(***************************************************************************)
C11_Original ==
    (/\ CycleDone /\ NonEmpty(cycle.fetched)
     /\ cycle.fetched.homeworks.items[1].type = "dict") =>
        /\ Ran("translate")
        /\ parse_status(cycle.fetched.homeworks.items[1]).raised # NoExc =>
              /\ cycle.failedAt = "translate"
              /\ VerdictSends = 0
              /\ timestamp = cycle.t0
              /\ ErrorSends = IF cycle.text # cycle.e0 THEN 1 ELSE 0

(***************************************************************************)
(* C12: when one of the three required environment variables is missing    *)
(* the process ends with exit code 1 before the loop starts, so nothing is *)
(* fetched and nothing is sent; when all three are set the loop starts.    *)
(***************************************************************************)
C12_Original ==
    pc # "check_tokens" =>
        IF \E key \in ENV_VARS : ~tokens[key]
        THEN /\ pc = "exited"
             /\ exit_status = IntV(1)
             /\ cycle.steps = <<>> /\ cycle.sends = <<>> /\ ~prev.ran
        ELSE /\ pc # "exited"
             /\ exit_status = None

(***************************************************************************)
(* C13: in every state of the loop the cursor is an integer; a response    *)
(* whose current_date is present but not an integer fails validation and   *)
(* its current_date is never assigned to the cursor.                       *)
(***************************************************************************)
C13_Original ==
    pc \notin {"check_tokens", "exited"} =>
        /\ timestamp.type = "int"
        /\ (Ran("validate") /\ cycle.fetched.type = "dict"
              /\ cycle.fetched.current_date.type \notin {"absent", "int"}) =>
                 cycle.failedAt = "validate"

(***************************************************************************)
(* C14: the cursor is never rolled back: after a cycle it is never smaller *)
(* than it was before that cycle, whatever the server answered.            *)
(***************************************************************************)
C14_Original ==
    (CycleDone /\ cycle.t0.type = "int" /\ timestamp.type = "int") =>
        timestamp.n >= cycle.t0.n

(***************************************************************************)
(* C15: every cycle, failed or not, ends with exactly one sleep of         *)
(* RETRY_PERIOD seconds and the next fetch starts only after it; within a  *)
(* cycle the steps come in the order fetch, validate, translate, notify,   *)
(* then the cursor update or the error handler, then the sleep.            *)
(***************************************************************************)
Rank(name) ==
    CASE name = "fetch" -> 1
      [] name = "validate" -> 2
      [] name = "translate" -> 3
      [] name = "notify" -> 4
      [] OTHER -> 5
InOrder(steps) ==
    /\ \A i \in 1..Len(steps) : \A j \in 1..Len(steps) :
          i < j => Rank(steps[i]) < Rank(steps[j])
    /\ steps # <<>> => steps[1] = "fetch"

C15_OneSleepPerCycle ==
    /\ [](InOrder(cycle.steps) /\ cycle.slept = 0)
    /\ [](CycleDone => Rank(cycle.steps[Len(cycle.steps)]) = 5)
    /\ [](pc = "fetch" /\ prev.ran => prev.slept = RETRY_PERIOD)
    /\ [][pc' = "fetch" /\ pc # "fetch" => pc \in {"check_tokens", "sleep"}]_vars
    /\ [][(pc = "advance" \/ pc = "except") => pc' = "sleep"]_vars
    /\ [][pc = "sleep" => pc' = "fetch" /\ cycle'.steps = <<>>]_vars

\* the fetch of a cycle that follows a failed cycle and its one sleep
C15_Witness ==
    /\ pc = "validate"
    /\ cycle.steps = <<"fetch">>
    /\ prev.ran /\ prev.failed
    /\ prev.slept = RETRY_PERIOD

(***************************************************************************)
(* C16: when requests.get cannot complete, get_api_answer fails with a     *)
(* transport failure (the RequestException, or the program's own           *)
(* APIAnswerException) and returns no response; the cycle fails like any   *)
(* other fetch failure: the cursor keeps its value and the error is        *)
(* notified unless it repeats the last one.                                *)
(***************************************************************************)
C16_Original ==
    (Ran("fetch") /\ cycle.net = "RequestException") =>
        /\ cycle.failedAt = "fetch"
        /\ error.type \in {"RequestException", "APIAnswerException"}
        /\ cycle.fetched = Unbound
        /\ timestamp = cycle.t0
        /\ CycleDone => ErrorSends = IF cycle.text # cycle.e0 THEN 1 ELSE 0

(***************************************************************************)
(* C17: the first failed cycle after the start of the loop notifies its    *)
(* error whatever the text of the message, the empty text included, and    *)
(* every failed cycle whose text differs from the last notified one        *)
(* notifies.                                                               *)
(***************************************************************************)
C17_Original ==
    (CycleDone /\ Failed) =>
        /\ ~prev.anyFailed => ErrorSends = 1
        /\ cycle.text # cycle.e0 => ErrorSends = 1

C19_UndeliveredNotResent ==
    /\ (CycleDone /\ Failed /\ ErrorSends = 1 /\ ~Sent(cycle, "error")[1].delivered) =>
          /\ current_error = cycle.text
          /\ timestamp = cycle.t0
    /\ (CycleDone /\ Failed /\ prev.failed /\ prev.errorSends = 1 /\ prev.undelivered
          /\ cycle.text = prev.text) =>
          /\ ErrorSends = 0
          /\ cycle.sends = <<>>
          /\ current_error = cycle.text
    /\ pc # "crashed"

\* the error whose only notification was not delivered has occurred again
C19_Witness ==
    /\ CycleDone /\ Failed
    /\ prev.failed /\ prev.errorSends = 1 /\ prev.undelivered
    /\ cycle.text = prev.text
    /\ cycle.sends = <<>>

(***************************************************************************)
(* C20: when the delivery of a verdict fails in a cycle whose fetch,       *)
(* validation and translation succeeded, the cycle still counts as a       *)
(* success: the cursor moves to the response's current_date, current_error *)
(* is unchanged, no error notification is attempted, and the verdict is    *)
(* not sent again: it is sent once, and whatever a cycle sends as a        *)
(* verdict is translated from the response fetched in that same cycle.     *)
(***************************************************************************)
C20_VerdictLost ==
    /\ (CycleDone /\ VerdictSends = 1 /\ ~Sent(cycle, "verdict")[1].delivered) =>
          /\ ~Failed
          /\ timestamp = get_current_date(cycle.fetched)
          /\ current_error = cycle.e0
          /\ ErrorSends = 0
          /\ Len(cycle.sends) = 1
    /\ VerdictSends <= 1
    /\ VerdictSends = 1 =>
          /\ NonEmpty(cycle.fetched)
          /\ Sent(cycle, "verdict")[1].text =
                parse_status(cycle.fetched.homeworks.items[1]).value
    /\ pc = "fetch" => message = "" /\ cycle.sends = <<>>

\* a verdict was lost in the previous cycle and the next cycle has begun
\* and ended without sending anything
C20_Witness ==
    /\ CycleDone /\ ~Failed /\ cycle.sends = <<>>
    /\ prev.ran /\ ~prev.failed /\ prev.undelivered
    /\ timestamp # cycle.t0
=============================================================================
